---- MODULE Spec2Model ----
(***************************************************************************)
(* WZ-Risk API (src/wzrisk-api/app.py): the risk score of a vulnerability  *)
(* finding, its severity tier, its explanation, and the work order of a    *)
(* batch of findings.                                                       *)
(*                                                                         *)
(* Numbers.  The program computes in IEEE-754 doubles.  The model computes *)
(* in exact decimal fixed point, one integer per quantity:                 *)
(*   cvss                      tenths            (9.8   is 98)             *)
(*   weights and bonuses       hundredths        (0.50  is 50)             *)
(*   factors in [0,1]          1/ONE             (0.2   is 2000)           *)
(*   years                     thousandths       (9.004 is 9004)           *)
(*   published                 hours, 0 being the start of day 0           *)
(*   base                      1/(100*ONE)       (1.34  is 1340000)        *)
(*   score                     1/(100*ONE) point (69.996 is 69996000)      *)
(*   risk_score                hundredths        (70.00 is 7000)           *)
(* and the three special doubles a weight can be loaded as (nan, inf,      *)
(* -inf) are the integers NaN, PosInf, NegInf, far outside every finite    *)
(* value of the model.                                                     *)
(***************************************************************************)
EXTENDS Integers, Sequences, FiniteSets, TLC

VARIABLES
    environ,        \* os.environ at process start: name -> text, for the names that are set
    W_CVSS, W_CRIT, W_EXPO, W_RECENCY, B_EXPLOIT, B_ACTIVE,   \* module globals, lines 70-75
    DEFAULT_CRIT, DEFAULT_EXPO,                               \* module globals, lines 77-78
    now,            \* datetime.now(timezone.utc), in days
    op,             \* the endpoint whose response is held ("idle": none)
    status,         \* HTTP status of the held response (0: none)
    req,            \* the findings of the request being answered
    resp,           \* the response body (a sequence of FindingOut, or the config dict)
    memo,           \* an earlier call of calc_score by /score, kept for comparison: <<>> or
                    \* <<[finding, out, result, day]>>
    calls,          \* the number of items of the request calc_score was called for
    threads,        \* the calls in progress in the worker threads: for each thread
                    \* where it is in its handler, and the handler's local variables
    ui              \* the dashboard page in a browser: lastBatch, the controls and
                    \* the lists rendered

vars == <<environ, W_CVSS, W_CRIT, W_EXPO, W_RECENCY, B_EXPLOIT, B_ACTIVE,
          DEFAULT_CRIT, DEFAULT_EXPO, now, op, status, req, resp, memo, calls, threads, ui>>

\* the variables of the request answered in one step
seqvars == <<op, status, req, resp, memo, calls>>

cfgvars == <<environ, W_CVSS, W_CRIT, W_EXPO, W_RECENCY, B_EXPLOIT, B_ACTIVE,
             DEFAULT_CRIT, DEFAULT_EXPO>>

---------------------------------------------------------------------------
(* Bounds of the model *)

MaxBatch == 2       \* longest batch of /score/batch
MaxDay == 1         \* the clock runs over the days 0..MaxDay
MaxWorkers == 2     \* worker threads that run handlers at the same time

---------------------------------------------------------------------------
(* Doubles *)

ONE == 10000                    \* 1.0 as a factor
PosInf == 1000000000            \* float("inf")
NegInf == -1000000000           \* float("-inf")
NaN == 1000000001               \* float("nan")

IsFinite(x) == x # NaN /\ x # PosInf /\ x # NegInf

\* a < b on doubles: false whenever one side is nan
flt(a, b) == a # NaN /\ b # NaN /\ a < b

\* min(a, b) and max(a, b) of Python: the first argument unless the second
\* compares strictly below (above) it
pymin(a, b) == IF flt(b, a) THEN b ELSE a
pymax(a, b) == IF flt(a, b) THEN b ELSE a

\* w * x, x finite
fmul(w, x) ==
    IF w = NaN THEN NaN
    ELSE IF w = PosInf \/ w = NegInf
         THEN (IF x = 0 THEN NaN ELSE IF x > 0 THEN w ELSE -w)
         ELSE w * x

\* a + b
fadd(a, b) ==
    IF a = NaN \/ b = NaN THEN NaN
    ELSE IF ~IsFinite(a) THEN (IF ~IsFinite(b) /\ b # a THEN NaN ELSE a)
    ELSE IF ~IsFinite(b) THEN b
    ELSE a + b

\* x / q rounded to the nearest integer, ties to even: round(x, 2) and the
\* formats {:.2f} of a value kept with more than two decimals
RoundHalfEven(x, q) ==
    LET fl == x \div q
        r == x % q
    IN  IF 2 * r < q THEN fl
        ELSE IF 2 * r > q THEN fl + 1
        ELSE IF fl % 2 = 0 THEN fl ELSE fl + 1

---------------------------------------------------------------------------
(* Enums *)

None == "None"
Crit == {"baixa", "media", "alta", "critica"}
Exposure == {"internet", "interna", "isolada"}

---------------------------------------------------------------------------
(* Configuration from the environment *)

FloatNames == {"WZ_W_CVSS", "WZ_W_CRIT", "WZ_W_EXPO", "WZ_W_RECENCY",
               "WZ_B_EXPLOIT", "WZ_B_ACTIVE"}
EnumNames == {"WZ_DEFAULT_CRIT", "WZ_DEFAULT_EXPO"}

\* float(text): the value in hundredths, or ValueError
float(text) ==
    CASE text = "-0.5" -> [ok |-> TRUE, v |-> -50]
      [] text = "0"    -> [ok |-> TRUE, v |-> 0]
      [] text = "0.25" -> [ok |-> TRUE, v |-> 25]
      [] text = "0.5"  -> [ok |-> TRUE, v |-> 50]
      [] text = "0.75" -> [ok |-> TRUE, v |-> 75]
      [] text = "1"    -> [ok |-> TRUE, v |-> 100]
      [] text = "1.5"  -> [ok |-> TRUE, v |-> 150]
      [] text = "nan"  -> [ok |-> TRUE, v |-> NaN]
      [] text = "inf"  -> [ok |-> TRUE, v |-> PosInf]
      [] text = "-inf" -> [ok |-> TRUE, v |-> NegInf]
      [] OTHER         -> [ok |-> FALSE, v |-> 0]

\* env_float with 0.0 returned where float() raised
env_float_zero_on_error(env, name, default) ==
    IF name \in DOMAIN env
    THEN (IF float(env[name]).ok THEN float(env[name]).v ELSE 0)
    ELSE default

\* _env_float(name, default), default in hundredths
env_float(env, name, default) ==
    IF name \in DOMAIN env
    THEN (IF float(env[name]).ok THEN float(env[name]).v ELSE default)
    ELSE default

\* _env_enum(name, enum_cls, default): enum_cls(val) looks the member up by value
env_enum(env, name, enum_cls, default) ==
    IF name \notin DOMAIN env THEN default
    ELSE IF env[name] \in enum_cls THEN env[name]
    ELSE default

\* one name set
OneSet(name, text) == [n \in {name} |-> text]

\* the overrides tried one at a time: each weight and bonus negative; a weight
\* and each bonus nan; infinite weights; texts that are no number; an enum
\* value, and texts that are no value of the enum
Overrides ==
    {<<n, "-0.5">> : n \in FloatNames}
    \cup {<<"WZ_W_CRIT", "nan">>, <<"WZ_B_EXPLOIT", "nan">>, <<"WZ_B_ACTIVE", "nan">>,
          <<"WZ_W_CVSS", "-inf">>, <<"WZ_W_RECENCY", "inf">>,
          <<"WZ_W_CVSS", "abc">>, <<"WZ_B_ACTIVE", "">>,
          <<"WZ_DEFAULT_CRIT", "critica">>, <<"WZ_DEFAULT_CRIT", "ALTA">>,
          <<"WZ_DEFAULT_EXPO", "isolada">>, <<"WZ_DEFAULT_EXPO", "">>}

\* the environments the process is started in: nothing set, one name set, every
\* weight and bonus negative, zero weights with bonuses above 1
Environments ==
    {<<>>}
    \cup {OneSet(o[1], o[2]) : o \in Overrides}
    \cup {[n \in FloatNames |-> "-0.5"],
          [n \in FloatNames |->
              IF n \in {"WZ_B_EXPLOIT", "WZ_B_ACTIVE"} THEN "1.5" ELSE "0"]}

\* what is done with one name: left unset, set to a value, set to a text that
\* is no value
Settings == {"unset", "value", "garbage"}

\* the text a name is set to
TextOf(name, setting) ==
    IF setting = "value"
    THEN CASE name = "WZ_W_CVSS" -> "0.25"
           [] name = "WZ_W_CRIT" -> "0.75"
           [] name = "WZ_W_EXPO" -> "1"
           [] name = "WZ_W_RECENCY" -> "0"
           [] name = "WZ_B_EXPLOIT" -> "1.5"
           [] name = "WZ_B_ACTIVE" -> "0.5"
           [] name = "WZ_DEFAULT_CRIT" -> "critica"
           [] name = "WZ_DEFAULT_EXPO" -> "internet"
    ELSE CASE name = "WZ_W_CVSS" -> "abc"
           [] name = "WZ_W_CRIT" -> ""
           [] name = "WZ_W_EXPO" -> "0,5"
           [] name = "WZ_W_RECENCY" -> "ten"
           [] name = "WZ_B_EXPLOIT" -> "0,5"
           [] name = "WZ_B_ACTIVE" -> ""
           [] name = "WZ_DEFAULT_CRIT" -> "ALTA"
           [] name = "WZ_DEFAULT_EXPO" -> ""

\* the environments in which every name is, independently of the others, unset,
\* set to a value, or set to a text that is no value
ConfigEnvironments ==
    {[n \in {m \in FloatNames \cup EnumNames : c[m] # "unset"} |-> TextOf(n, c[n])] :
        c \in [FloatNames \cup EnumNames -> Settings]}

---------------------------------------------------------------------------
(* Schemas *)

Optional(S) == {<<>>} \cup {<<x>> : x \in S}

\* a FindingIn that passed validation (cvss within 0..10)
Finding(id, cvss, published, crit, known, active, expo, years) ==
    [id |-> id,
     agent |-> None,
     cvss |-> cvss,
     published |-> published,
     asset_criticality |-> crit,
     has_known_exploit |-> known,
     is_actively_exploited |-> active,
     exposure |-> expo,
     years |-> years]

\* the findings submitted in batches: every tier under the built-in weights,
\* scores that differ below the second decimal, equal sort keys, repeated
\* identifiers, omitted criticality and exposure, an age derived from published
BatchFindings ==
    {Finding("CVE-1", 98, 0, "critica", TRUE, TRUE, "internet", <<0>>),
     Finding("CVE-1", 50, 0, "alta", FALSE, TRUE, "isolada", <<9004>>),
     Finding("CVE-2", 50, 0, "alta", FALSE, TRUE, "isolada", <<9004>>),
     Finding("CVE-2", 50, 0, "alta", FALSE, TRUE, "isolada", <<9001>>),
     Finding("CVE-3", 100, 0, "alta", FALSE, FALSE, "isolada", <<9001>>),
     Finding("CVE-3", 0, 0, "baixa", FALSE, FALSE, "isolada", <<15000>>),
     Finding("CVE-4", 100, -9612, None, FALSE, FALSE, None, <<>>)}

CvssValues == {0, 100}
YearsValues == {-2000, 0, 9004, 15000}
PublishedValues == {-9612, 0}

\* the findings submitted one at a time; the age is given by years, or else
\* by published
FindingIn ==
    BatchFindings \cup
    {f \in [id : {"CVE-1"},
            agent : {None},
            cvss : CvssValues,
            published : PublishedValues,
            asset_criticality : Crit \cup {None},
            has_known_exploit : BOOLEAN,
            is_actively_exploited : BOOLEAN,
            exposure : Exposure \cup {None},
            years : Optional(YearsValues)] :
        f.years # <<>> => f.published = 0}

\* the requests of /cve/check
CVECheckIn == {f \in FindingIn : f.cvss # 0}

\* the payloads of /score/batch
BatchIn == UNION {[1..n -> BatchFindings] : n \in 0..MaxBatch}

\* FindingOut echoing the criticality and the exposure of the request
FindingOut_raw_echo(data, crit_res, expo_res, risk_score, risk_level, explanation) ==
    [id |-> data.id,
     agent |-> data.agent,
     cvss |-> data.cvss,
     published |-> data.published,
     asset_criticality |-> data.asset_criticality,
     has_known_exploit |-> data.has_known_exploit,
     is_actively_exploited |-> data.is_actively_exploited,
     exposure |-> data.exposure,
     years |-> data.years,
     risk_score |-> risk_score,
     risk_level |-> risk_level,
     explanation |-> explanation,
     work_order |-> <<>>]

\* FindingOut(**data.dict(exclude=...), asset_criticality=, exposure=, risk_score=,
\* risk_level=, explanation=), work_order left at its default None
FindingOut(data, crit_res, expo_res, risk_score, risk_level, explanation) ==
    [id |-> data.id,
     agent |-> data.agent,
     cvss |-> data.cvss,
     published |-> data.published,
     asset_criticality |-> crit_res,
     has_known_exploit |-> data.has_known_exploit,
     is_actively_exploited |-> data.is_actively_exploited,
     exposure |-> expo_res,
     years |-> data.years,
     risk_score |-> risk_score,
     risk_level |-> risk_level,
     explanation |-> explanation,
     work_order |-> <<>>]

---------------------------------------------------------------------------
(* Risk model *)

CRIT_WEIGHTS == [c \in Crit |->
    CASE c = "baixa" -> 2000 [] c = "media" -> 5000 [] c = "alta" -> 8000 [] c = "critica" -> ONE]

EXPO_WEIGHTS == [e \in Exposure |->
    CASE e = "isolada" -> 2000 [] e = "interna" -> 6000 [] e = "internet" -> ONE]

\* clamp without its lower bound
clamp_upper_only(x, lo, hi) == pymin(hi, x)

clamp(x, lo, hi) == pymax(lo, pymin(hi, x))

\* timedelta.days of a difference of delta hours: the whole days, rounded down
days(delta) == delta \div 24

\* years_since(pub): delta.days / 365.25, in thousandths of a year; now is in
\* days and pub in hours
years_since(pub) == RoundHalfEven(days(now * 24 - pub) * 4000, 1461)

\* data.asset_criticality or DEFAULT_CRIT, data.exposure or DEFAULT_EXPO: None
\* is false, every member of the enums (a non-empty str) is true
Resolve(value, default) == IF value # None THEN value ELSE default

\* Recency without the 1.0 - ...
Recency_not_inverted(yrs) == clamp(clamp(yrs, 0, ONE), 0, ONE)

\* recency_factor of calc_score; yrs / 10.0 as a factor is the integer of yrs
\* in thousandths
Recency(yrs) == clamp(ONE - clamp(yrs, 0, ONE), 0, ONE)

\* Years with the explicit years ignored
Years_always_derived(data) == years_since(data.published)

\* Years with the explicit years not floored at 0
Years_not_floored(data) ==
    IF data.years = <<>> THEN years_since(data.published) ELSE data.years[1]

\* yrs of calc_score, in thousandths of a year
Years(data) ==
    IF data.years = <<>> THEN years_since(data.published) ELSE pymax(0, data.years[1])

\* Base with the second bonus under elif
Base_elif(cvss_n, crit_w, expo_w, recency_factor, known, active) ==
    LET base0 == fadd(fadd(fadd(fmul(W_CVSS, cvss_n), fmul(W_CRIT, crit_w)),
                           fmul(W_EXPO, expo_w)),
                      fmul(W_RECENCY, recency_factor))
    IN  IF known THEN fadd(base0, fmul(B_EXPLOIT, ONE))
        ELSE IF active THEN fadd(base0, fmul(B_ACTIVE, ONE))
        ELSE base0

\* base of calc_score: the weighted sum, then the bonuses
Base(cvss_n, crit_w, expo_w, recency_factor, known, active) ==
    LET base0 == fadd(fadd(fadd(fmul(W_CVSS, cvss_n), fmul(W_CRIT, crit_w)),
                           fmul(W_EXPO, expo_w)),
                      fmul(W_RECENCY, recency_factor))
        base1 == IF known THEN fadd(base0, fmul(B_EXPLOIT, ONE)) ELSE base0
    IN  IF active THEN fadd(base1, fmul(B_ACTIVE, ONE)) ELSE base1

\* the if/elif chain on score
Level(score) ==
    IF score >= 90 * 100 * ONE THEN "CRITICAL"
    ELSE IF score >= 70 * 100 * ONE THEN "HIGH"
    ELSE IF score >= 40 * 100 * ONE THEN "MEDIUM"
    ELSE "LOW"

\* the band of recency_msg
RecencyMsg(yrs) ==
    IF yrs <= 1000 THEN "muito recente"
    ELSE IF yrs <= 3000 THEN "ainda recente"
    ELSE IF yrs <= 10000 THEN "perde peso com a idade"
    ELSE "antiga"

\* round(s, 2) and {score:.2f}, in hundredths of a point
round2(s) == RoundHalfEven(s, ONE)

\* a sentence of the explanation: which one, the numbers formatted into it (at
\* the decimals of the format), the text formatted into it
Sentence(which, a, b, text) == <<which, a, b, text>>

\* int(B * 100) raises ValueError on nan and OverflowError on inf
IntRaises(bonus) == ~IsFinite(bonus)

calc_score(data) ==
    LET asset_crit == Resolve(data.asset_criticality, DEFAULT_CRIT)
        exposure == Resolve(data.exposure, DEFAULT_EXPO)
        cvss_n == clamp(data.cvss * (ONE \div 100), 0, ONE)
        crit_w == CRIT_WEIGHTS[asset_crit]
        expo_w == EXPO_WEIGHTS[exposure]
        yrs == Years(data)
        recency_factor == Recency(yrs)
        base == Base(cvss_n, crit_w, expo_w, recency_factor,
                     data.has_known_exploit, data.is_actively_exploited)
        score == clamp(base, 0, 100 * ONE) * 100
        level == Level(score)
        expl == <<Sentence("cvss", data.cvss, W_CVSS, ""),
                  Sentence("criticidade", crit_w \div 100, W_CRIT, asset_crit),
                  Sentence("exposicao", expo_w \div 100, W_EXPO, exposure),
                  Sentence("recencia", RoundHalfEven(yrs, 10), W_RECENCY, RecencyMsg(yrs))>>
                \o (IF data.has_known_exploit
                    THEN <<Sentence("exploit", B_EXPLOIT, 0, "")>> ELSE <<>>)
                \o (IF data.is_actively_exploited
                    THEN <<Sentence("ativa", B_ACTIVE, 0, "")>> ELSE <<>>)
                \o <<Sentence("final", round2(score), 0, level)>>
    IN  [raised |-> \/ data.has_known_exploit /\ IntRaises(B_EXPLOIT)
                    \/ data.is_actively_exploited /\ IntRaises(B_ACTIVE),
         score |-> score,
         level |-> level,
         expl |-> expl,
         asset_crit |-> asset_crit,
         exposure |-> exposure]

---------------------------------------------------------------------------
(* Worker threads *)

Workers == 1..MaxWorkers

\* a thread that runs no handler
NoCall == [pc |-> "idle", name |-> "", items |-> <<>>, idx |-> 0,
           ranked |-> <<>>, ordered |-> <<>>, result |-> <<>>]

---------------------------------------------------------------------------
(* The dashboard page *)

Levels == {"CRITICAL", "HIGH", "MEDIUM", "LOW"}

\* the options of the select topN, and the ones chosen
TopNOptions == {1, 3, 5, 10}
TopNChosen == {1, 3}

\* the severity check boxes that are clicked
SevChosen == {"CRITICAL", "MEDIUM"}

\* the page as served: no batch yet, topN 3 selected, every severity checked,
\* no agent to select, nothing rendered
PageLoaded ==
    [lastBatch |-> <<>>, topN |-> 3, sev |-> Levels, options |-> {}, agent |-> "",
     overview |-> <<>>, detail |-> <<>>, error |-> FALSE]

---------------------------------------------------------------------------
(* Process start *)

\* the module is imported in an environment of envs: the globals are loaded
Start(envs) ==
    /\ environ \in envs
    /\ W_CVSS = env_float(environ, "WZ_W_CVSS", 50)
    /\ W_CRIT = env_float(environ, "WZ_W_CRIT", 20)
    /\ W_EXPO = env_float(environ, "WZ_W_EXPO", 15)
    /\ W_RECENCY = env_float(environ, "WZ_W_RECENCY", 10)
    /\ B_EXPLOIT = env_float(environ, "WZ_B_EXPLOIT", 15)
    /\ B_ACTIVE = env_float(environ, "WZ_B_ACTIVE", 25)
    /\ DEFAULT_CRIT = env_enum(environ, "WZ_DEFAULT_CRIT", Crit, "media")
    /\ DEFAULT_EXPO = env_enum(environ, "WZ_DEFAULT_EXPO", Exposure, "interna")
    /\ now = 0
    /\ op = "idle"
    /\ status = 0
    /\ req = <<>>
    /\ resp = <<>>
    /\ memo = <<>>
    /\ calls = 0
    /\ threads = [t \in Workers |-> NoCall]
    /\ ui = PageLoaded

Init == Start(Environments)

---------------------------------------------------------------------------
(* Endpoints *)

\* what a single-item handler returns for inp: the body, or <<>> when calc_score raised
Scored(inp) ==
    LET r == calc_score(inp) IN
    IF r.raised THEN <<>>
    ELSE <<FindingOut(inp, r.asset_crit, r.exposure, round2(r.score), r.level, r.expl)>>

\* the items calc_score is called for, one after the other, until it raises
Calls(items) ==
    IF \E i \in 1..Len(items) : calc_score(items[i]).raised
    THEN CHOOSE i \in 1..Len(items) :
            /\ calc_score(items[i]).raised
            /\ \A j \in 1..(i - 1) : ~calc_score(items[j]).raised
    ELSE Len(items)

\* the handler is entered with a validated request and ends with a response
\* (500 when it raised)
Answer(name, items, body, raised) ==
    /\ op = "idle"
    /\ op' = name
    /\ req' = items
    /\ status' = IF raised THEN 500 ELSE 200
    /\ resp' = body
    /\ calls' = Calls(items)
    /\ UNCHANGED <<cfgvars, now, memo, threads, ui>>

\* GET /config
config ==
    Answer("config", <<>>,
           <<[DEFAULT_CRIT |-> DEFAULT_CRIT, DEFAULT_EXPO |-> DEFAULT_EXPO,
              W_CVSS |-> W_CVSS, W_CRIT |-> W_CRIT, W_EXPO |-> W_EXPO,
              W_RECENCY |-> W_RECENCY, B_EXPLOIT |-> B_EXPLOIT, B_ACTIVE |-> B_ACTIVE]>>,
           FALSE)

\* POST /score
score_endpoint(inp) ==
    Answer("score", <<inp>>, Scored(inp), calc_score(inp).raised)

\* SortKey with the ranks of HIGH and MEDIUM exchanged
SortKey_tiers_exchanged(level, s, active, known, expo_w, crit_w, idx) ==
    <<CASE level = "CRITICAL" -> 0 [] level = "HIGH" -> 2
        [] level = "MEDIUM" -> 1 [] level = "LOW" -> 3,
      -s, -active, -known, -expo_w, -crit_w, idx>>

\* SortKey with the score not negated
SortKey_score_ascending(level, s, active, known, expo_w, crit_w, idx) ==
    <<CASE level = "CRITICAL" -> 0 [] level = "HIGH" -> 1
        [] level = "MEDIUM" -> 2 [] level = "LOW" -> 3,
      s, -active, -known, -expo_w, -crit_w, idx>>

\* SortKey with the index negated like the keys before it
SortKey_idx_negated(level, s, active, known, expo_w, crit_w, idx) ==
    <<CASE level = "CRITICAL" -> 0 [] level = "HIGH" -> 1
        [] level = "MEDIUM" -> 2 [] level = "LOW" -> 3,
      -s, -active, -known, -expo_w, -crit_w, -idx>>

\* the sort key of one item of a batch
SortKey(level, s, active, known, expo_w, crit_w, idx) ==
    <<CASE level = "CRITICAL" -> 0 [] level = "HIGH" -> 1
        [] level = "MEDIUM" -> 2 [] level = "LOW" -> 3,
      -s, -active, -known, -expo_w, -crit_w, idx>>

\* a < b on the key tuples
KeyLess(a, b) ==
    \E k \in 1..Len(a) : a[k] < b[k] /\ \A j \in 1..(k - 1) : a[j] = b[j]

\* list.sort(key=...): ascending by key, equal keys in their order in the list
SortedByKey(ranked) ==
    LET n == Len(ranked)
        before(j, i) == \/ KeyLess(ranked[j].key, ranked[i].key)
                        \/ ~KeyLess(ranked[i].key, ranked[j].key) /\ j < i
        pos(i) == 1 + Cardinality({j \in 1..n : before(j, i)})
        RECURSIVE place(_)
        place(p) == IF p > n THEN <<>>
                    ELSE <<ranked[CHOOSE i \in 1..n : pos(i) = p]>> \o place(p + 1)
    IN  place(1)

\* the tuple appended to ranked for payload.items[i] (idx = i - 1)
Ranked(items, i) ==
    LET item == items[i]
        r == calc_score(item)
    IN  [key |-> SortKey(r.level, r.score,
                         IF item.is_actively_exploited THEN 1 ELSE 0,
                         IF item.has_known_exploit THEN 1 ELSE 0,
                         EXPO_WEIGHTS[r.exposure], CRIT_WEIGHTS[r.asset_crit], i - 1),
         res |-> FindingOut(item, r.asset_crit, r.exposure, round2(r.score), r.level, r.expl)]

\* ranked after the loop over enumerate(payload.items), from item i on
RECURSIVE RankedFrom(_, _)
RankedFrom(items, i) ==
    IF i > Len(items) THEN <<>>
    ELSE <<Ranked(items, i)>> \o RankedFrom(items, i + 1)

\* the loop over enumerate(ordered, start=1) that sets work_order, from position p on
RECURSIVE Numbered(_, _)
Numbered(sorted, p) ==
    IF p > Len(sorted) THEN <<>>
    ELSE <<[sorted[p].res EXCEPT !.work_order = <<p>>]>> \o Numbered(sorted, p + 1)

\* ordered of score_batch
Ordered(items) == Numbered(SortedByKey(RankedFrom(items, 1)), 1)

BatchRaises(items) == \E i \in 1..Len(items) : calc_score(items[i]).raised

\* POST /score/batch
score_batch(items) ==
    Answer("batch", items,
           IF BatchRaises(items) THEN <<>> ELSE Ordered(items),
           BatchRaises(items))

\* CVECheckIn has the fields of FindingIn: FindingIn(**inp.dict()) copies them
AsFinding(inp) ==
    [Finding(inp.id, inp.cvss, inp.published, inp.asset_criticality, inp.has_known_exploit,
             inp.is_actively_exploited, inp.exposure, inp.years)
        EXCEPT !.agent = inp.agent]

\* POST /cve/check
cve_check_endpoint(inp) ==
    Answer("cve", <<AsFinding(inp)>>, Scored(AsFinding(inp)), calc_score(AsFinding(inp)).raised)

\* the response is sent; request and response are discarded
Send ==
    /\ op # "idle"
    /\ op' = "idle"
    /\ status' = 0
    /\ req' = <<>>
    /\ resp' = <<>>
    /\ calls' = 0
    /\ UNCHANGED <<cfgvars, now, memo, threads, ui>>

\* the wall clock advances; a handler runs at one instant, so the clock is
\* seen to advance between requests
Tick ==
    /\ op = "idle"
    /\ now < MaxDay
    /\ now' = now + 1
    /\ UNCHANGED <<cfgvars, op, status, req, resp, memo, calls, threads, ui>>

Idle == op = "idle"

Next ==
    \/ Idle /\ config
    \/ Idle /\ \E inp \in FindingIn : score_endpoint(inp)
    \/ Idle /\ \E items \in BatchIn : score_batch(items)
    \/ Idle /\ \E inp \in CVECheckIn : cve_check_endpoint(inp)
    \/ Send
    \/ Tick

Spec == Init /\ [][Next]_vars

---------------------------------------------------------------------------
(* The same service, with one answer of /score remembered *)

\* the findings and batches submitted while an answer is remembered
RepeatedFindings ==
    {Finding("CVE-1", 98, 0, "critica", TRUE, TRUE, "internet", <<0>>),
     Finding("CVE-1", 50, 0, None, FALSE, TRUE, None, <<9004>>),
     Finding("CVE-4", 100, -9612, None, FALSE, FALSE, None, <<>>)}

RepeatedBatchIn ==
    UNION {[1..n -> {f \in RepeatedFindings : f.cvss # 98}] : n \in 0..MaxBatch}

\* the answer of /score that is held is remembered, with what calc_score returned
Remember ==
    /\ op = "score" /\ status = 200 /\ memo = <<>>
    /\ memo' = <<[finding |-> req[1], out |-> resp[1],
                  result |-> calc_score(req[1]), day |-> now]>>
    /\ UNCHANGED <<cfgvars, now, op, status, req, resp, calls, threads, ui>>

NextRepeated ==
    \/ Idle /\ config
    \/ Idle /\ \E inp \in RepeatedFindings : score_endpoint(inp)
    \/ Idle /\ \E items \in RepeatedBatchIn : score_batch(items)
    \/ Idle /\ \E inp \in RepeatedFindings : cve_check_endpoint(inp)
    \/ Remember
    \/ Send
    \/ Tick

SpecRepeated == Init /\ [][NextRepeated]_vars

---------------------------------------------------------------------------
(* The same service, started in every combination of overrides *)

InitConfig == Start(ConfigEnvironments)

NextConfig ==
    \/ Idle /\ config
    \/ Idle /\ \E inp \in RepeatedFindings : score_endpoint(inp)
    \/ Send

SpecConfig == InitConfig /\ [][NextConfig]_vars

---------------------------------------------------------------------------
(* The same service, with the requests as they arrive, before validation *)

\* published of an item whose text is no timestamp
Unparseable == 1000000002

\* the constraints of the fields of FindingIn: cvss a number within 0..10,
\* published a timestamp, asset_criticality and exposure absent or a value of
\* their enumeration
Valid(item) ==
    /\ item.cvss \in 0..100
    /\ item.published # Unparseable
    /\ item.asset_criticality \in Crit \cup {None}
    /\ item.exposure \in Exposure \cup {None}

\* the items that arrive in batches: three that pass validation, and one for
\* each way of failing it
ArrivingItems ==
    {Finding("CVE-1", 98, 0, "critica", TRUE, TRUE, "internet", <<0>>),
     Finding("CVE-2", 50, 0, "alta", FALSE, FALSE, "isolada", <<9004>>),
     Finding("CVE-4", 100, -9612, None, FALSE, FALSE, None, <<>>),
     Finding("CVE-5", 110, 0, "alta", FALSE, FALSE, "isolada", <<0>>),
     Finding("CVE-6", 50, Unparseable, "alta", FALSE, FALSE, "isolada", <<0>>),
     Finding("CVE-7", 50, 0, "ALTA", TRUE, FALSE, "isolada", <<0>>),
     Finding("CVE-8", 50, 0, "alta", FALSE, TRUE, "externa", <<0>>)}

ArrivingBatches == UNION {[1..n -> ArrivingItems] : n \in 0..MaxBatch}

\* the request is rejected at validation: the handler is not entered
Reject(name, items) ==
    /\ op = "idle"
    /\ op' = name
    /\ req' = items
    /\ status' = 422
    /\ resp' = <<>>
    /\ calls' = 0
    /\ UNCHANGED <<cfgvars, now, memo, threads, ui>>

\* POST /score/batch with a body of items: payload: BatchIn is validated, then
\* score_batch is called
post_score_batch(items) ==
    IF \A i \in 1..Len(items) : Valid(items[i])
    THEN score_batch(items)
    ELSE Reject("batch", items)

\* the process is started with the built-in configuration or with one bonus
\* overridden
ArrivingEnvironments ==
    {<<>>, OneSet("WZ_B_EXPLOIT", "nan"), OneSet("WZ_B_ACTIVE", "inf"),
     OneSet("WZ_B_ACTIVE", "1.5")}

InitArriving == Start(ArrivingEnvironments)

NextArriving ==
    \/ Idle /\ config
    \/ Idle /\ \E items \in ArrivingBatches : post_score_batch(items)
    \/ Send
    \/ Tick

SpecArriving == InitArriving /\ [][NextArriving]_vars

---------------------------------------------------------------------------
(* The same service, its handlers run by worker threads, one statement at a time *)

\* Local with ranked a list of the module, shared by all threads
Local_shared(t, u) == TRUE

\* the threads whose list ranked an append by thread t reaches: ranked is a
\* local variable of score_batch, so t's own only
Local(t, u) == t = u

\* the findings and the batches of the concurrent calls
ConcurrentFindings ==
    {Finding("CVE-2", 50, 0, "alta", FALSE, TRUE, "isolada", <<9004>>),
     Finding("CVE-4", 100, -9612, None, FALSE, FALSE, None, <<>>)}

ConcurrentBatches ==
    {<<Finding("CVE-2", 50, 0, "alta", FALSE, TRUE, "isolada", <<9004>>),
       Finding("CVE-4", 100, -9612, None, FALSE, FALSE, None, <<>>)>>,
     <<Finding("CVE-4", 100, -9612, None, FALSE, FALSE, None, <<>>)>>}

\* thread t changes its own state to th
Step(t, th) ==
    /\ threads' = [threads EXCEPT ![t] = th]
    /\ UNCHANGED <<cfgvars, now, seqvars, ui>>

\* a request is handed to an idle thread, which enters the handler
call(t, name, items) ==
    /\ threads[t].pc = "idle"
    /\ Step(t, [NoCall EXCEPT !.pc = IF name = "batch" THEN "loop" ELSE name,
                              !.name = name, !.items = items, !.idx = 1])

\* config: the dict is built from the globals and returned
thread_config(t) ==
    /\ threads[t].pc = "config"
    /\ Step(t, [threads[t] EXCEPT
                   !.pc = "return",
                   !.result = <<[DEFAULT_CRIT |-> DEFAULT_CRIT, DEFAULT_EXPO |-> DEFAULT_EXPO,
                                 W_CVSS |-> W_CVSS, W_CRIT |-> W_CRIT, W_EXPO |-> W_EXPO,
                                 W_RECENCY |-> W_RECENCY, B_EXPLOIT |-> B_EXPLOIT,
                                 B_ACTIVE |-> B_ACTIVE]>>])

\* score_endpoint and cve_check_endpoint: calc_score, then the FindingOut
thread_score(t) ==
    /\ threads[t].pc \in {"score", "cve"}
    /\ Step(t, [threads[t] EXCEPT
                   !.pc = IF calc_score(AsFinding(threads[t].items[1])).raised
                          THEN "raised" ELSE "return",
                   !.result = Scored(AsFinding(threads[t].items[1]))])

\* score_batch, one turn of the loop over enumerate(payload.items): the tuple
\* of the item is appended to ranked
thread_batch_loop(t) ==
    LET th == threads[t] IN
    /\ th.pc = "loop" /\ th.idx <= Len(th.items)
    /\ IF calc_score(th.items[th.idx]).raised
       THEN Step(t, [th EXCEPT !.pc = "raised"])
       ELSE /\ threads' =
                 [u \in Workers |->
                    IF u = t
                    THEN [th EXCEPT !.ranked = Append(@, Ranked(th.items, th.idx)),
                                    !.idx = @ + 1]
                    ELSE IF Local(t, u) THEN [threads[u] EXCEPT
                                               !.ranked = Append(@, Ranked(th.items, th.idx))]
                    ELSE threads[u]]
            /\ UNCHANGED <<cfgvars, now, seqvars, ui>>

\* [t[-1] for t in sorted], from position p on
RECURSIVE Results(_, _)
Results(sorted, p) ==
    IF p > Len(sorted) THEN <<>> ELSE <<sorted[p].res>> \o Results(sorted, p + 1)

\* score_batch after the loop: ranked.sort(...), ordered = [t[-1] for t in ranked]
thread_batch_sort(t) ==
    LET th == threads[t] IN
    /\ th.pc = "loop" /\ th.idx > Len(th.items)
    /\ Step(t, [th EXCEPT !.pc = "number", !.idx = 1,
                          !.ordered = Results(SortedByKey(th.ranked), 1)])

\* score_batch, one turn of the loop over enumerate(ordered, start=1)
thread_batch_number(t) ==
    LET th == threads[t] IN
    /\ th.pc = "number" /\ th.idx <= Len(th.ordered)
    /\ Step(t, [th EXCEPT !.ordered[th.idx].work_order = <<th.idx>>, !.idx = @ + 1])

\* score_batch: return ordered
thread_batch_return(t) ==
    LET th == threads[t] IN
    /\ th.pc = "number" /\ th.idx > Len(th.ordered)
    /\ Step(t, [th EXCEPT !.pc = "return", !.result = th.ordered])

\* the response is sent, the thread is free again
thread_done(t) ==
    /\ threads[t].pc \in {"return", "raised"}
    /\ Step(t, NoCall)

\* the clock is seen to advance when no handler is running
Quiet == \A t \in Workers : threads[t].pc = "idle"

ConcurrentEnvironments == {<<>>, OneSet("WZ_DEFAULT_CRIT", "critica")}

InitConcurrent == Start(ConcurrentEnvironments)

NextConcurrent ==
    \/ \E t \in Workers : call(t, "config", <<>>)
    \/ \E t \in Workers : \E inp \in ConcurrentFindings : call(t, "score", <<inp>>)
    \/ \E t \in Workers : \E inp \in ConcurrentFindings : call(t, "cve", <<inp>>)
    \/ \E t \in Workers : \E items \in ConcurrentBatches : call(t, "batch", items)
    \/ \E t \in Workers : thread_config(t)
    \/ \E t \in Workers : thread_score(t)
    \/ \E t \in Workers : thread_batch_loop(t)
    \/ \E t \in Workers : thread_batch_sort(t)
    \/ \E t \in Workers : thread_batch_number(t)
    \/ \E t \in Workers : thread_batch_return(t)
    \/ \E t \in Workers : thread_done(t)
    \/ Quiet /\ Tick

SpecConcurrent == InitConcurrent /\ [][NextConcurrent]_vars

---------------------------------------------------------------------------
(* The dashboard: the script of the page served at /ui *)

\* the property names every object literal {} inherits from Object.prototype
ObjectPrototype ==
    {"constructor", "__proto__", "toString", "toLocaleString", "valueOf",
     "hasOwnProperty", "isPrototypeOf", "propertyIsEnumerable"}

\* it[key] || '(sem ' + key + ')' for key = 'agent': null and '' are falsy
GroupKey(it) == IF it.agent = None \/ it.agent = "" THEN "(sem agent)" ELSE it.agent

\* groupBy(list, 'agent').  map[k] of the empty literal is undefined for a new
\* k, except where k names a property of Object.prototype: then map[k] is that
\* property, map[k] || [] is it too, and .push is not a function (TypeError)
groupBy(list) ==
    LET keys == {GroupKey(list[i]) : i \in 1..Len(list)}
        of(k) == LET same(it) == GroupKey(it) = k IN SelectSeq(list, same)
    IN  [threw |-> keys \cap ObjectPrototype # {},
         map |-> [k \in keys |-> of(k)]]

\* list paired with the value the comparator of sortByRisk orders by
RECURSIVE ByRisk(_, _)
ByRisk(list, p) ==
    IF p > Len(list) THEN <<>>
    ELSE <<[key |-> <<CASE list[p].risk_level = "CRITICAL" -> 0
                        [] list[p].risk_level = "HIGH" -> 1
                        [] list[p].risk_level = "MEDIUM" -> 2
                        [] list[p].risk_level = "LOW" -> 3,
                      -list[p].risk_score>>,
             res |-> list[p]]>> \o ByRisk(list, p + 1)

\* sortByRisk(list): a sorted copy; Array.prototype.sort keeps the order of the
\* elements its comparator returns 0 for
sortByRisk(list) == Results(SortedByKey(ByRisk(list, 1)), 1)

\* list.slice(0, n)
slice(list, n) == SubSeq(list, 1, IF n < Len(list) THEN n ELSE Len(list))

\* the agents in the order of Array.prototype.sort (by code units)
CodeUnitOrder == <<"(sem agent)", "__proto__", "constructor", "srv-a", "srv-b">>

\* Object.keys(...).sort()[0]
FirstKey(keys) ==
    CodeUnitOrder[CHOOSE i \in 1..Len(CodeUnitOrder) :
                     /\ CodeUnitOrder[i] \in keys
                     /\ \A j \in 1..(i - 1) : CodeUnitOrder[j] \notin keys]

\* renderOverview(data): the table and the charts are emptied, then data is
\* grouped, then every agent gets its topN list
renderOverview(page, data) ==
    LET perAgent == groupBy(data) IN
    IF perAgent.threw THEN [page EXCEPT !.overview = <<>>, !.error = TRUE]
    ELSE [page EXCEPT !.overview = [a \in DOMAIN perAgent.map |->
                                       slice(sortByRisk(perAgent.map[a]), page.topN)]]

\* renderDetailFor(agent) on lastBatch
renderDetailFor(page, agent) ==
    LET mine(it) == GroupKey(it) = agent /\ it.risk_level \in page.sev
    IN  [page EXCEPT !.detail = sortByRisk(SelectSeq(page.lastBatch[1], mine))]

\* renderDetail(data): the select is filled with the agents, its first option
\* becomes the selected one, and the detail of that agent is rendered
renderDetail(page, data) ==
    LET agents == groupBy(data) IN
    IF agents.threw THEN [page EXCEPT !.error = TRUE]
    ELSE IF DOMAIN agents.map = {}
         THEN [page EXCEPT !.options = {}, !.agent = "", !.detail = <<>>]
         ELSE renderDetailFor([page EXCEPT !.options = DOMAIN agents.map,
                                           !.agent = FirstKey(DOMAIN agents.map)],
                              FirstKey(DOMAIN agents.map))

\* the page changes; the service is as before
Page(page) ==
    /\ ui' = page
    /\ UNCHANGED <<cfgvars, now, seqvars, threads>>

\* click on btn-batch with items in the text area: POST /score/batch; on a
\* response that is not ok the error is shown; else lastBatch = data,
\* renderOverview(data), renderDetail(data), and an exception in them is shown
\* as the error
btn_batch(items) ==
    LET cleared == [ui EXCEPT !.error = FALSE] IN
    IF BatchRaises(items) THEN Page([cleared EXCEPT !.error = TRUE])
    ELSE LET data == Ordered(items)
             kept == [cleared EXCEPT !.lastBatch = <<data>>]
             over == renderOverview(kept, data)
         IN  Page(IF over.error THEN over ELSE renderDetail(over, data))

\* change of the select topN
change_topN(n) ==
    /\ n \in TopNOptions
    /\ ui.lastBatch # <<>>
    /\ Page(renderOverview([ui EXCEPT !.topN = n], ui.lastBatch[1]))

\* change of the select of agents
change_agent(a) ==
    /\ ui.lastBatch # <<>>
    /\ a \in ui.options
    /\ Page(renderDetailFor([ui EXCEPT !.agent = a], a))

\* change of a severity check box
change_sev(level) ==
    /\ ui.lastBatch # <<>>
    /\ LET page == [ui EXCEPT !.sev = IF level \in @ THEN @ \ {level} ELSE @ \cup {level}]
       IN  Page(renderDetailFor(page, page.agent))

\* f reported by agent a
ReportedBy(f, a) == [f EXCEPT !.agent = a]

\* the findings classified from the dashboard: two agents, a finding without
\* agent, findings of one agent that tie on tier and returned score, an agent
\* called constructor
DashboardFindings ==
    {ReportedBy(Finding("CVE-1", 50, 0, "alta", FALSE, TRUE, "isolada", <<9004>>), "srv-a"),
     ReportedBy(Finding("CVE-2", 50, 0, "alta", FALSE, TRUE, "isolada", <<9001>>), "srv-a"),
     ReportedBy(Finding("CVE-1", 98, 0, "critica", TRUE, TRUE, "internet", <<0>>), "srv-b"),
     Finding("CVE-4", 100, -9612, None, FALSE, FALSE, None, <<>>),
     ReportedBy(Finding("CVE-3", 0, 0, "baixa", FALSE, FALSE, "isolada", <<15000>>),
                "constructor")}

DashboardBatches == UNION {[1..n -> DashboardFindings] : n \in 0..MaxBatch}

InitDashboard == Start({<<>>})

NextDashboard ==
    \/ \E items \in DashboardBatches : btn_batch(items)
    \/ \E n \in TopNChosen : change_topN(n)
    \/ \E a \in ui.options : change_agent(a)
    \/ \E level \in SevChosen : change_sev(level)

SpecDashboard == InitDashboard /\ [][NextDashboard]_vars

---------------------------------------------------------------------------
(* Properties *)

\* a response of one of the three scoring endpoints is held
Answered == op \in {"score", "batch", "cve"} /\ status = 200

\* base of calc_score for data, before the final clamp
Unclamped(data) ==
    Base(clamp(data.cvss * (ONE \div 100), 0, ONE),
         CRIT_WEIGHTS[Resolve(data.asset_criticality, DEFAULT_CRIT)],
         EXPO_WEIGHTS[Resolve(data.exposure, DEFAULT_EXPO)],
         Recency(Years(data)),
         data.has_known_exploit, data.is_actively_exploited)

\* C1: for every validated finding and every configuration the environment
\* can load (negative weights, weights above 1, nan, inf), the score calc_score
\* computes is at least 0 and at most 100 points, and so is every returned
\* risk_score.
C1_ScoreInRange ==
    /\ \A i \in 1..Len(req) :
          /\ 0 <= calc_score(req[i]).score
          /\ calc_score(req[i]).score <= 100 * 100 * ONE
    /\ Answered => \A p \in 1..Len(resp) :
          0 <= resp[p].risk_score /\ resp[p].risk_score <= 100 * 100

\* C1 witness: a finding was scored whose base is below 0 (a negative weight),
\* and the score returned is 0.
C1_Witness ==
    /\ op = "score" /\ status = 200
    /\ flt(Unclamped(req[1]), 0)
    /\ resp[1].risk_score = 0

\* the tier the thresholds 90, 70, 40 give a returned risk_score (in hundredths)
TierOfReturned(risk_score) ==
    IF risk_score >= 9000 THEN "CRITICAL"
    ELSE IF risk_score >= 7000 THEN "HIGH"
    ELSE IF risk_score >= 4000 THEN "MEDIUM"
    ELSE "LOW"

\* C2: in every Scored Finding returned, risk_level is the step function of the
\* returned two-decimal risk_score with boundaries at 40, 70 and 90, inclusive
\* below (70.00 is HIGH, 69.99 is MEDIUM).
C2_TierOfReturnedScore ==
    Answered => \A p \in 1..Len(resp) :
        resp[p].risk_level = TierOfReturned(resp[p].risk_score)

\* the result out echoes the finding f: every field f supplied is returned unchanged
Echoes(out, f) ==
    /\ out.id = f.id
    /\ out.agent = f.agent
    /\ out.cvss = f.cvss
    /\ out.published = f.published
    /\ out.years = f.years
    /\ out.has_known_exploit = f.has_known_exploit
    /\ out.is_actively_exploited = f.is_actively_exploited
    /\ f.asset_criticality # None => out.asset_criticality = f.asset_criticality
    /\ f.exposure # None => out.exposure = f.exposure

\* resp holds one result per finding of req, in some order, numbered 1..N by position
RankedPermutation ==
    /\ Len(resp) = Len(req)
    /\ \E pi \in Permutations(1..Len(req)) :
          \A p \in 1..Len(req) : Echoes(resp[p], req[pi[p]])
    /\ \A p \in 1..Len(resp) : resp[p].work_order = <<p>>

\* C3: for every batch of N >= 0 validated findings, score_batch returns
\* exactly N Scored Findings, a permutation of the input, the one at position i
\* having work_order = i.
C3_BatchIsRankedPermutation == op = "batch" => RankedPermutation

\* every batch that is answered (no exception in calc_score) is such a permutation
AnsweredBatchIsRankedPermutation == op = "batch" /\ status = 200 => RankedPermutation

TierRank(level) ==
    CASE level = "CRITICAL" -> 0 [] level = "HIGH" -> 1
      [] level = "MEDIUM" -> 2 [] level = "LOW" -> 3

\* C4: in the output of score_batch every CRITICAL finding has a smaller
\* work_order than every HIGH one, every HIGH than every MEDIUM, every MEDIUM
\* than every LOW, whatever the input order.
C4_TiersInOrder ==
    op = "batch" /\ status = 200 =>
        \A a, b \in 1..Len(resp) :
            TierRank(resp[a].risk_level) < TierRank(resp[b].risk_level)
                => resp[a].work_order[1] < resp[b].work_order[1]

\* C4 witness: a batch whose findings are of different tiers, the least severe
\* submitted first, is returned most severe first.
C4_Witness ==
    /\ op = "batch" /\ status = 200 /\ Len(resp) >= 2
    /\ \A p \in 1..(Len(resp) - 1) :
          TierRank(resp[p].risk_level) < TierRank(resp[p + 1].risk_level)
    /\ \A p \in 1..Len(resp) : Echoes(resp[p], req[Len(req) + 1 - p])
    /\ ~Echoes(resp[1], req[1])

\* the score calc_score computed for a result, before round(s, 2)
Unrounded(out) == calc_score(AsFinding(out)).score

Flag(b) == IF b THEN 1 ELSE 0

\* a is not after b by the tie-break keys, the score being score(a), score(b)
TieBreakOrder(sa, sb, a, b) ==
    \/ sa > sb
    \/ /\ sa = sb
       /\ \/ Flag(a.is_actively_exploited) > Flag(b.is_actively_exploited)
          \/ /\ a.is_actively_exploited = b.is_actively_exploited
             /\ \/ Flag(a.has_known_exploit) > Flag(b.has_known_exploit)
                \/ /\ a.has_known_exploit = b.has_known_exploit
                   /\ \/ EXPO_WEIGHTS[a.exposure] > EXPO_WEIGHTS[b.exposure]
                      \/ /\ a.exposure = b.exposure
                         /\ CRIT_WEIGHTS[a.asset_criticality]
                               >= CRIT_WEIGHTS[b.asset_criticality]

\* C5, as claimed: within one tier of a batch output the order is lexicographic
\* by the returned risk_score (higher first), then is_actively_exploited, then
\* has_known_exploit, then the exposure factor, then the criticality factor.
C5_OrderByReturnedScore ==
    op = "batch" /\ status = 200 =>
        \A p, q \in 1..Len(resp) :
            p < q /\ resp[p].risk_level = resp[q].risk_level
                => TieBreakOrder(resp[p].risk_score, resp[q].risk_score, resp[p], resp[q])

\* C5, amended: the same order, by the score before its rounding to two decimals.
C5_OrderByUnroundedScore ==
    op = "batch" /\ status = 200 =>
        \A p, q \in 1..Len(resp) :
            p < q /\ resp[p].risk_level = resp[q].risk_level
                => TieBreakOrder(Unrounded(resp[p]), Unrounded(resp[q]), resp[p], resp[q])

\* C5 witness: two findings of one tier and one score, the actively exploited
\* one submitted second and returned first.
C5_Witness ==
    /\ op = "batch" /\ status = 200 /\ Len(resp) = 2
    /\ resp[1].risk_level = resp[2].risk_level
    /\ Unrounded(resp[1]) = Unrounded(resp[2])
    /\ resp[1].is_actively_exploited /\ ~resp[2].is_actively_exploited
    /\ Echoes(resp[1], req[2]) /\ Echoes(resp[2], req[1])

\* f with the defaults put in for the criticality and the exposure it omitted
Resolved(f) ==
    [f EXCEPT !.asset_criticality = Resolve(f.asset_criticality, DEFAULT_CRIT),
              !.exposure = Resolve(f.exposure, DEFAULT_EXPO)]

\* the findings of seq that tie with f: same tier, same score (as given by
\* score(_)), same exploit flags, same resolved exposure and criticality
Ties(seq, f, score(_)) ==
    LET tied(g) == /\ calc_score(g).level = calc_score(f).level
                   /\ score(g) = score(f)
                   /\ g.is_actively_exploited = f.is_actively_exploited
                   /\ g.has_known_exploit = f.has_known_exploit
                   /\ g.exposure = f.exposure
                   /\ g.asset_criticality = f.asset_criticality
    IN  SelectSeq(seq, tied)

\* req resolved, and resp as findings
Submitted == [i \in 1..Len(req) |-> Resolved(req[i])]
Returned == [p \in 1..Len(resp) |-> AsFinding(resp[p])]

ReturnedScore(f) == round2(calc_score(f).score)
UnroundedScore(f) == calc_score(f).score

\* the sort keys of the batch in req are pairwise different
KeysDiffer ==
    \A i, j \in 1..Len(req) : i # j => Ranked(req, i).key # Ranked(req, j).key

\* C6, as claimed: findings of a batch with identical risk_level, risk_score,
\* exploit flags, resolved exposure and resolved criticality are returned in
\* their input order; the sort keys of a batch are pairwise different.
C6_TiesOnReturnedScoreKeepOrder ==
    op = "batch" /\ status = 200 =>
        /\ \A i \in 1..Len(req) :
              Ties(Returned, Submitted[i], ReturnedScore)
                  = Ties(Submitted, Submitted[i], ReturnedScore)
        /\ KeysDiffer

\* C6, amended: the same, for findings identical in the score before its
\* rounding to two decimals.
C6_TiesKeepOrder ==
    op = "batch" /\ status = 200 =>
        /\ \A i \in 1..Len(req) :
              Ties(Returned, Submitted[i], UnroundedScore)
                  = Ties(Submitted, Submitted[i], UnroundedScore)
        /\ KeysDiffer

\* C6 witness: two findings that differ in nothing but the identifier are
\* returned in the order they were submitted in.
C6_Witness ==
    /\ op = "batch" /\ status = 200 /\ Len(resp) = 2
    /\ req[1].id # req[2].id
    /\ [Resolved(req[1]) EXCEPT !.id = ""] = [Resolved(req[2]) EXCEPT !.id = ""]
    /\ resp[1].id = req[1].id /\ resp[2].id = req[2].id

CritTier(c) ==
    CASE c = "baixa" -> 1 [] c = "media" -> 2 [] c = "alta" -> 3 [] c = "critica" -> 4

ExpoTier(e) ==
    CASE e = "isolada" -> 1 [] e = "interna" -> 2 [] e = "internet" -> 3

\* the findings that differ from f in exactly one attribute, that one being
\* riskier: a higher cvss, a higher criticality tier, a higher exposure tier, a
\* smaller age (fewer years, or a later publication), an exploit flag set
Riskier(f) ==
    {[f EXCEPT !.cvss = c] : c \in {c \in {0, 50, 98, 100} : c > f.cvss}}
    \cup {[f EXCEPT !.asset_criticality = c] :
            c \in {c \in Crit : /\ f.asset_criticality \in Crit
                                /\ CritTier(c) > CritTier(f.asset_criticality)}}
    \cup {[f EXCEPT !.exposure = e] :
            e \in {e \in Exposure : /\ f.exposure \in Exposure
                                    /\ ExpoTier(e) > ExpoTier(f.exposure)}}
    \cup {[f EXCEPT !.years = <<y>>] :
            y \in {y \in {-2000, 0, 500, 2000, 9001, 9004, 15000} :
                      f.years # <<>> /\ y < f.years[1]}}
    \cup {[f EXCEPT !.published = d] :
            d \in {d \in {-96000, -9612, -9600, 0, 120} :
                      f.years = <<>> /\ d > f.published}}
    \cup {[f EXCEPT !.has_known_exploit = TRUE] : x \in {y \in {1} : ~f.has_known_exploit}}
    \cup {[f EXCEPT !.is_actively_exploited = TRUE] :
            x \in {y \in {1} : ~f.is_actively_exploited}}

\* no weight and no bonus of the configuration is negative
NoNegativeWeight ==
    \A w \in {W_CVSS, W_CRIT, W_EXPO, W_RECENCY, B_EXPLOIT, B_ACTIVE} : ~flt(w, 0)

\* C7, as claimed: under the active configuration, whatever it is, a finding
\* that differs from the one scored in exactly one attribute, that one riskier,
\* never has the lower score.
C7_Monotone ==
    op \in {"score", "cve"} =>
        \A g \in Riskier(req[1]) : calc_score(g).score >= calc_score(req[1]).score

\* C7, amended: the same, under a configuration in which no weight and no
\* bonus is negative.
C7_MonotoneNoNegativeWeight ==
    NoNegativeWeight /\ op \in {"score", "cve"} =>
        \A g \in Riskier(req[1]) : calc_score(g).score >= calc_score(req[1]).score

\* C7 witness: no weight is negative, and the finding scored has a younger
\* variant with a strictly higher score.
C7_Witness ==
    /\ op = "score" /\ status = 200 /\ NoNegativeWeight
    /\ \E g \in Riskier(req[1]) :
          /\ g.cvss = req[1].cvss
          /\ g.years # req[1].years
          /\ calc_score(g).score > calc_score(req[1]).score

\* the built-in weights and bonuses
DefaultWeights ==
    /\ W_CVSS = 50 /\ W_CRIT = 20 /\ W_EXPO = 15 /\ W_RECENCY = 10
    /\ B_EXPLOIT = 15 /\ B_ACTIVE = 25

Min(a, b) == IF a < b THEN a ELSE b
Max(a, b) == IF a > b THEN a ELSE b

\* 100 x clamp(0.50*cvss/10 + 0.20*critFactor + 0.15*expoFactor
\*             + 0.10*recencyFactor + 0.15*[known] + 0.25*[active], 0..1),
\* in millionths of a point, for a result and the age scored
ClosedForm(out, age) ==
    LET critFactor == CASE out.asset_criticality = "baixa" -> 2000
                        [] out.asset_criticality = "media" -> 5000
                        [] out.asset_criticality = "alta" -> 8000
                        [] out.asset_criticality = "critica" -> 10000
        expoFactor == CASE out.exposure = "isolada" -> 2000
                        [] out.exposure = "interna" -> 6000
                        [] out.exposure = "internet" -> 10000
        recencyFactor == Max(0, Min(10000, 10000 - age))
        sum == 50 * (out.cvss * 100) + 20 * critFactor + 15 * expoFactor
               + 10 * recencyFactor
               + (IF out.has_known_exploit THEN 15 * 10000 ELSE 0)
               + (IF out.is_actively_exploited THEN 25 * 10000 ELSE 0)
    IN  100 * Max(0, Min(1000000, sum))

ScenarioLow == Finding("CVE-3", 0, 0, "baixa", FALSE, FALSE, "isolada", <<15000>>)
ScenarioTop == Finding("CVE-1", 98, 0, "critica", TRUE, TRUE, "internet", <<0>>)

\* C8: under the built-in weights and bonuses the score is the closed form of
\* the claim; cvss 0, criticality low, exposure isolated, age 15 years, no
\* exploit gives base 0.07, score 7.00, LOW; cvss 9.8, critical, internet-facing,
\* age 0, both exploit flags gives base 1.34, score 100.00, CRITICAL.
C8_DefaultFormula ==
    DefaultWeights /\ Answered =>
        /\ \A p \in 1..Len(resp) :
              /\ Unrounded(resp[p]) = ClosedForm(resp[p], Years(AsFinding(resp[p])))
              /\ resp[p].risk_score
                    = RoundHalfEven(ClosedForm(resp[p], Years(AsFinding(resp[p]))), 10000)
        /\ \A i \in 1..Len(req) :
              /\ req[i] = ScenarioLow =>
                    /\ Unclamped(req[i]) = 70000
                    /\ \E p \in 1..Len(resp) :
                          /\ Echoes(resp[p], req[i])
                          /\ resp[p].risk_score = 700
                          /\ resp[p].risk_level = "LOW"
              /\ req[i] = ScenarioTop =>
                    /\ Unclamped(req[i]) = 1340000
                    /\ \E p \in 1..Len(resp) :
                          /\ Echoes(resp[p], req[i])
                          /\ resp[p].risk_score = 10000
                          /\ resp[p].risk_level = "CRITICAL"

\* C8 witness: both scenarios scored in one batch under the built-in weights.
C8_Witness ==
    /\ DefaultWeights /\ op = "batch" /\ status = 200
    /\ req = <<ScenarioLow, ScenarioTop>>
    /\ resp[1].risk_score = 10000 /\ resp[2].risk_score = 700

\* the resolved criticality and exposure of f are the ones out carries
CarriesResolved(out, f) ==
    /\ Echoes(out, f)
    /\ out.asset_criticality
          = (IF f.asset_criticality \in Crit THEN f.asset_criticality ELSE DEFAULT_CRIT)
    /\ out.exposure = (IF f.exposure \in Exposure THEN f.exposure ELSE DEFAULT_EXPO)

\* C10: in every Scored Finding returned, asset_criticality and exposure are
\* set, each the finding's own value when it supplied one and the configured
\* default when it did not, and they are the values the score and the sort key
\* were computed from.
C10_ResolvedEchoed ==
    Answered =>
        /\ \A p \in 1..Len(resp) :
              /\ resp[p].asset_criticality \in Crit
              /\ resp[p].exposure \in Exposure
              /\ resp[p].risk_score = round2(Unrounded(resp[p]))
              /\ resp[p].risk_level = calc_score(AsFinding(resp[p])).level
        /\ \E pi \in Permutations(1..Len(req)) :
              \A p \in 1..Len(req) : CarriesResolved(resp[p], req[pi[p]])
        /\ \A p, q \in 1..Len(resp) :
              p < q /\ resp[p].risk_level = resp[q].risk_level
                  => TieBreakOrder(Unrounded(resp[p]), Unrounded(resp[q]), resp[p], resp[q])

\* C10 witness: a batch in which a finding without criticality and exposure is
\* returned with defaults that are not the built-in ones.
C10_Witness ==
    /\ op = "batch" /\ status = 200 /\ Len(resp) = 2
    /\ DEFAULT_CRIT = "critica"
    /\ \E i \in 1..2 : req[i].asset_criticality = None /\ req[i].exposure = None
    /\ \E p \in 1..2 : resp[p].id = "CVE-4" /\ resp[p].asset_criticality = "critica"
                       /\ resp[p].exposure = DEFAULT_EXPO

\* C9: a finding with an explicit years, scored once, is scored again at any
\* later time, after any other calls, to the identical score, tier, explanation
\* and resolved attributes, and every endpoint returns for it the identical
\* Scored Finding.
C9_SameAnswerAgain ==
    Len(memo) = 1 /\ memo[1].finding.years # <<>> =>
        /\ calc_score(memo[1].finding) = memo[1].result
        /\ op \in {"score", "cve"} /\ req = <<memo[1].finding>> => resp = <<memo[1].out>>
        /\ op = "batch" =>
              \A i \in 1..Len(req) :
                  req[i] = memo[1].finding =>
                      \E p \in 1..Len(resp) :
                          [resp[p] EXCEPT !.work_order = <<>>] = memo[1].out

\* C9 witness: a finding with an explicit years scored on day 0 is scored again
\* on a later day, with defaults put in for its criticality and exposure.
C9_Witness ==
    /\ Len(memo) = 1 /\ memo[1].finding.years # <<>> /\ memo[1].day = 0
    /\ memo[1].finding.asset_criticality = None
    /\ now > 0 /\ op = "score" /\ status = 200
    /\ req = <<memo[1].finding>> /\ resp = <<memo[1].out>>

---------------------------------------------------------------------------
(* Configuration loading *)

\* the built-in defaults
BuiltIn ==
    [n \in FloatNames \cup EnumNames |->
        CASE n = "WZ_W_CVSS" -> 50 [] n = "WZ_W_CRIT" -> 20 [] n = "WZ_W_EXPO" -> 15
          [] n = "WZ_W_RECENCY" -> 10 [] n = "WZ_B_EXPLOIT" -> 15 [] n = "WZ_B_ACTIVE" -> 25
          [] n = "WZ_DEFAULT_CRIT" -> "media" [] n = "WZ_DEFAULT_EXPO" -> "interna"]

\* the value the process holds for a name
Loaded ==
    [n \in FloatNames \cup EnumNames |->
        CASE n = "WZ_W_CVSS" -> W_CVSS [] n = "WZ_W_CRIT" -> W_CRIT [] n = "WZ_W_EXPO" -> W_EXPO
          [] n = "WZ_W_RECENCY" -> W_RECENCY [] n = "WZ_B_EXPLOIT" -> B_EXPLOIT
          [] n = "WZ_B_ACTIVE" -> B_ACTIVE
          [] n = "WZ_DEFAULT_CRIT" -> DEFAULT_CRIT [] n = "WZ_DEFAULT_EXPO" -> DEFAULT_EXPO]

\* the decimal numerals among the texts, with the number each denotes (in
\* hundredths); the texts that denote no number
Numeral ==
    [t \in {"0", "0.25", "0.5", "0.75", "1", "1.5"} |->
        CASE t = "0" -> 0 [] t = "0.25" -> 25 [] t = "0.5" -> 50
          [] t = "0.75" -> 75 [] t = "1" -> 100 [] t = "1.5" -> 150]
NoNumber == {"abc", "", "0,5", "ten"}

\* an override text is well formed under a name: a numeral for a weight or a
\* bonus, a member of the enumeration for a default
WellFormed(name, text) ==
    IF name \in FloatNames THEN text \in DOMAIN Numeral
    ELSE IF name = "WZ_DEFAULT_CRIT" THEN text \in {"baixa", "media", "alta", "critica"}
    ELSE text \in {"internet", "interna", "isolada"}

\* an override text is malformed under a name: no number, or no member of the
\* enumeration
Malformed(name, text) ==
    IF name \in FloatNames THEN text \in NoNumber ELSE ~WellFormed(name, text)

\* the value a well-formed override text stands for
Meant(name, text) == IF name \in FloatNames THEN Numeral[text] ELSE text

\* C11: loading the configuration never fails, and each of the six weights and
\* bonuses and the two default enumerations is loaded on its own: the built-in
\* default when its override is absent, the overriding value when the override
\* is well formed, the built-in default when it is malformed, whatever the
\* other overrides are; /config reports these values.
C11_ConfigLoadedPerItem ==
    /\ \A n \in FloatNames \cup EnumNames :
          /\ n \notin DOMAIN environ => Loaded[n] = BuiltIn[n]
          /\ n \in DOMAIN environ =>
                /\ WellFormed(n, environ[n]) => Loaded[n] = Meant(n, environ[n])
                /\ Malformed(n, environ[n]) => Loaded[n] = BuiltIn[n]
    /\ \A n \in FloatNames : Loaded[n] \in Int
    /\ DEFAULT_CRIT \in Crit /\ DEFAULT_EXPO \in Exposure
    /\ op = "config" =>
          /\ status = 200
          /\ resp = <<[DEFAULT_CRIT |-> Loaded["WZ_DEFAULT_CRIT"],
                       DEFAULT_EXPO |-> Loaded["WZ_DEFAULT_EXPO"],
                       W_CVSS |-> Loaded["WZ_W_CVSS"], W_CRIT |-> Loaded["WZ_W_CRIT"],
                       W_EXPO |-> Loaded["WZ_W_EXPO"], W_RECENCY |-> Loaded["WZ_W_RECENCY"],
                       B_EXPLOIT |-> Loaded["WZ_B_EXPLOIT"],
                       B_ACTIVE |-> Loaded["WZ_B_ACTIVE"]]>>

\* C11 witness: the process was started with a malformed WZ_W_CVSS, a malformed
\* WZ_DEFAULT_CRIT, a well-formed WZ_W_CRIT and WZ_DEFAULT_EXPO and no
\* WZ_W_EXPO, and /config reports the defaults for the first two and the third,
\* the overriding values for the others.
C11_Witness ==
    /\ "WZ_W_EXPO" \notin DOMAIN environ
    /\ {"WZ_W_CVSS", "WZ_W_CRIT", "WZ_DEFAULT_CRIT", "WZ_DEFAULT_EXPO"} \subseteq DOMAIN environ
    /\ environ["WZ_W_CVSS"] = "abc" /\ environ["WZ_DEFAULT_CRIT"] = "ALTA"
    /\ environ["WZ_W_CRIT"] = "0.75" /\ environ["WZ_DEFAULT_EXPO"] = "internet"
    /\ op = "config" /\ status = 200
    /\ resp[1].W_CVSS = 50 /\ resp[1].DEFAULT_CRIT = "media" /\ resp[1].W_EXPO = 15
    /\ resp[1].W_CRIT = 75 /\ resp[1].DEFAULT_EXPO = "internet"

---------------------------------------------------------------------------
(* Batches as they arrive *)

\* no item of the batch in req fails validation
AllValid == \A i \in 1..Len(req) : Valid(req[i])

\* C12: a batch call has no partial failure: when an item of the batch fails
\* validation the call is rejected, calc_score was called for no item and no
\* Scored Finding is returned; otherwise calc_score was called for every one of
\* the N items and N Scored Findings are returned.
C12_NoPartialFailure ==
    op = "batch" =>
        IF AllValid
        THEN status = 200 /\ calls = Len(req) /\ Len(resp) = Len(req) /\ RankedPermutation
        ELSE status = 422 /\ calls = 0 /\ resp = <<>>

\* the same holds whenever both bonuses loaded are finite numbers
NoPartialFailureUnderFiniteBonuses ==
    IsFinite(B_EXPLOIT) /\ IsFinite(B_ACTIVE) => C12_NoPartialFailure

\* a batch with an item that fails validation is rejected whole, before
\* calc_score is called, under every configuration
InvalidBatchRejectedWhole ==
    op = "batch" /\ ~AllValid => status = 422 /\ calls = 0 /\ resp = <<>>

---------------------------------------------------------------------------
(* Concurrent calls *)

\* the globals hold what was loaded from the environment at process start
ConfigAsLoaded ==
    /\ W_CVSS = env_float(environ, "WZ_W_CVSS", 50)
    /\ W_CRIT = env_float(environ, "WZ_W_CRIT", 20)
    /\ W_EXPO = env_float(environ, "WZ_W_EXPO", 15)
    /\ W_RECENCY = env_float(environ, "WZ_W_RECENCY", 10)
    /\ B_EXPLOIT = env_float(environ, "WZ_B_EXPLOIT", 15)
    /\ B_ACTIVE = env_float(environ, "WZ_B_ACTIVE", 25)
    /\ DEFAULT_CRIT = env_enum(environ, "WZ_DEFAULT_CRIT", Crit, "media")
    /\ DEFAULT_EXPO = env_enum(environ, "WZ_DEFAULT_EXPO", Exposure, "interna")

\* what the call of a thread returns when it runs alone
Alone(th) ==
    CASE th.name = "batch" -> Ordered(th.items)
      [] th.name \in {"score", "cve"} -> Scored(AsFinding(th.items[1]))
      [] th.name = "config" ->
            <<[DEFAULT_CRIT |-> DEFAULT_CRIT, DEFAULT_EXPO |-> DEFAULT_EXPO,
               W_CVSS |-> W_CVSS, W_CRIT |-> W_CRIT, W_EXPO |-> W_EXPO,
               W_RECENCY |-> W_RECENCY, B_EXPLOIT |-> B_EXPLOIT, B_ACTIVE |-> B_ACTIVE]>>

\* the work_order values a thread holds are the ones its own numbering loop
\* has set so far
OwnWorkOrders(th) ==
    /\ \A i \in 1..Len(th.ranked) : th.ranked[i].res.work_order = <<>>
    /\ \A p \in 1..Len(th.ordered) :
          th.ordered[p].work_order = IF th.pc = "return" \/ p < th.idx THEN <<p>> ELSE <<>>
    /\ th.name \in {"score", "cve"} =>
          \A p \in 1..Len(th.result) : th.result[p].work_order = <<>>

\* C13: under every interleaving of the statements of concurrent config,
\* score, cve and batch calls, the configuration is the one loaded at process
\* start, every call returns what it returns when run alone on its input at
\* the same instant, and the work_order values of a batch call are set by that
\* call alone and appear in no other call.
C13_CallsDoNotInterfere ==
    /\ ConfigAsLoaded
    /\ \A t \in Workers :
          /\ threads[t].pc = "return" => threads[t].result = Alone(threads[t])
          /\ threads[t].pc # "raised"
          /\ OwnWorkOrders(threads[t])
          /\ threads[t].pc \in {"loop", "number"} =>
                /\ Len(threads[t].ranked) <= Len(threads[t].items)
                /\ \A i \in 1..Len(threads[t].ranked) :
                      threads[t].ranked[i] = Ranked(threads[t].items, i)

\* C13 witness: a batch call returns its ranked result, its two findings
\* exchanged and numbered, while another batch call is in its numbering loop
\* and a work_order of that call is already set.
C13_Witness ==
    \E t, u \in Workers :
        /\ t # u
        /\ threads[t].pc = "return" /\ threads[t].name = "batch"
        /\ Len(threads[t].result) = 2
        /\ threads[t].result[1].id = threads[t].items[2].id
        /\ threads[t].result[1].id # threads[t].items[1].id
        /\ threads[u].pc = "number" /\ threads[u].idx = 2

---------------------------------------------------------------------------
(* The dashboard *)

\* the agent a finding is shown under
AgentOf(it) == IF it.agent \in {None, ""} THEN "(sem agent)" ELSE it.agent

\* the findings of agent a with a tier in levels, in the order of the batch
OfAgent(data, a, levels) ==
    LET chosen(it) == AgentOf(it) = a /\ it.risk_level \in levels
    IN  SelectSeq(data, chosen)

\* the first n entries of seq
FirstN(seq, n) == [p \in 1..(IF n < Len(seq) THEN n ELSE Len(seq)) |-> seq[p]]

\* the lists of the dashboard are the batch in lastBatch, restricted
ListsKeepBatchOrder ==
    LET data == ui.lastBatch[1] IN
    /\ \A i \in 1..Len(data) :
          /\ AgentOf(data[i]) \in DOMAIN ui.overview
          /\ ui.overview[AgentOf(data[i])]
                = FirstN(OfAgent(data, AgentOf(data[i]), Levels), ui.topN)
    /\ Len(data) > 0 =>
          /\ ui.agent \in {AgentOf(data[i]) : i \in 1..Len(data)}
          /\ ui.detail = OfAgent(data, ui.agent, ui.sev)
    /\ \A a \in DOMAIN ui.overview : \A p, q \in 1..Len(ui.overview[a]) :
          p < q => ui.overview[a][p].work_order[1] < ui.overview[a][q].work_order[1]
    /\ \A p, q \in 1..Len(ui.detail) :
          p < q => ui.detail[p].work_order[1] < ui.detail[q].work_order[1]

\* C14: for every ranked batch the dashboard holds, every agent, every topN
\* and every set of checked severities, the list shown for an agent is the
\* subsequence of the ranked batch of that agent's findings (of the checked
\* severities; cut to its first topN entries in the overview), findings that
\* tie on tier and score included.
C14_DashboardKeepsBatchOrder == ui.lastBatch # <<>> => ListsKeepBatchOrder

\* no agent of the batch in lastBatch has the name of a property of Object.prototype
OrdinaryAgents ==
    \A i \in 1..Len(ui.lastBatch[1]) :
        AgentOf(ui.lastBatch[1][i])
            \notin {"constructor", "__proto__", "toString", "toLocaleString", "valueOf",
                     "hasOwnProperty", "isPrototypeOf", "propertyIsEnumerable"}

\* for such batches the lists are as claimed
OrdinaryAgentsKeepBatchOrder ==
    ui.lastBatch # <<>> /\ OrdinaryAgents => ListsKeepBatchOrder

---------------------------------------------------------------------------
(* Recency *)

\* the whole days from published to the evaluation time
WholeDays(f) ==
    LET hours == now * 24 - f.published
    IN  CHOOSE d \in (hours \div 24 - 1)..(hours \div 24 + 1) :
            d * 24 <= hours /\ hours < (d + 1) * 24

\* age is the age of f in thousandths of a year, as the claim gives it: the
\* explicit years, floored at 0; else the whole days from published to the
\* evaluation time, divided by 365.25 (to the nearest thousandth)
IsAge(f, age) ==
    IF f.years # <<>>
    THEN age = (IF f.years[1] < 0 THEN 0 ELSE f.years[1])
    ELSE /\ 2 * (age * 1461 - WholeDays(f) * 4000) <= 1461
         /\ 2 * (WholeDays(f) * 4000 - age * 1461) <= 1461

\* clamp(1 - age/10, 0..1), as a factor
Decay(age) == Max(0, Min(ONE, ONE - age))

\* years values beyond the finite ones, and ages the decay is sampled at
OddYears == {NaN, PosInf, NegInf, -2000, -1}
SampleAges == {0, 500, 2500, 9001, 10000, 10001, 15000}

\* the factor is in [0,1] for every years value, 1 at age 0, falls by the age
\* difference up to 10 years and is 0 from 10 years on
DecayShape ==
    /\ \A y \in OddYears :
          /\ 0 <= Recency(pymax(0, y)) /\ Recency(pymax(0, y)) <= ONE
          /\ ~flt(0, y) => Recency(pymax(0, y)) = ONE
    /\ Recency(0) = ONE
    /\ \A a, b \in SampleAges :
          /\ a >= 10000 => Recency(a) = 0
          /\ a <= b /\ b <= 10000 => Recency(a) - Recency(b) = b - a

\* C15: the recency factor calc_score uses lies in [0,1] and is
\* clamp(1 - age/10, 0..1): 1.0 at age 0, linear in the age, 0.0 from 10 years
\* on; an explicit years below 0 gives the score, tier and explanation of
\* years = 0; without years the age is the whole days from published to the
\* evaluation time, divided by 365.25.
C15_RecencyFactor ==
    /\ \A i \in 1..Len(req) :
          Valid(req[i]) =>
              /\ LET age == Years(req[i])
                     factor == Recency(age)
                 IN  /\ IsAge(req[i], age)
                     /\ factor = Decay(age)
                     /\ 0 <= factor /\ factor <= ONE
              /\ req[i].years # <<>> /\ req[i].years[1] < 0 =>
                    /\ calc_score(req[i]) = calc_score([req[i] EXCEPT !.years = <<0>>])
                    /\ op \in {"score", "cve"} /\ status = 200 =>
                          [resp[1] EXCEPT !.years = <<0>>]
                              = Scored([req[i] EXCEPT !.years = <<0>>])[1]
    /\ DecayShape

\* C15 witness: under a positive recency weight a finding with years = -2 is
\* scored as with years = 0, and higher than with years = 9.004.
C15_Witness ==
    /\ op = "score" /\ status = 200 /\ IsFinite(W_RECENCY) /\ W_RECENCY > 0
    /\ req[1].years = <<-2000>>
    /\ req[1].cvss = 0 /\ ~req[1].has_known_exploit /\ ~req[1].is_actively_exploited
    /\ resp[1].risk_score = Scored([req[1] EXCEPT !.years = <<0>>])[1].risk_score
    /\ resp[1].risk_score > Scored([req[1] EXCEPT !.years = <<9004>>])[1].risk_score

\* a finding without years, published 400 days and 12 hours before the
\* evaluation time, is scored at the age of 400 days (1.095 years)
DerivedAgeInWholeDays ==
    /\ op = "score" /\ status = 200
    /\ req[1].years = <<>> /\ req[1].published = -9612 /\ now = 0
    /\ Years(req[1]) = 1095

====
